---- MODULE Spec2Model ----
(***************************************************************************)
(* BaseTile (WebCore/platform/graphics/android/BaseTile.cpp): one tile of  *)
(* the page grid, its pooled double-buffered texture, the consumer (main   *)
(* GL) thread that reserves, invalidates and draws it, and the producer    *)
(* (texture generation) thread that paints it.                            *)
(*                                                                         *)
(* m_atomicSync is modelled as a lock with a visible holder: every         *)
(* critical section is an acquire step (blocked while the lock is held)    *)
(* followed by one step that runs the locked body and releases.            *)
(* The texture, the pool and the rasterizer are collaborators whose code   *)
(* is not part of BaseTile.cpp; they are modelled from their contract.     *)
(***************************************************************************)
EXTENDS Integers, FiniteSets, TLC

\* ---------------------------------------------------------------- bounds
MaxGen == 1          \* picture counts range over 0..MaxGen
MaxScale == 2        \* scales range over 1..MaxScale
MaxUsedLevel == 2    \* used levels range over VisibleLevel..MaxUsedLevel; the code only
                     \* compares a level with VisibleLevel, lower levels act as VisibleLevel
NumTextures == 2     \* textures of the pool

\* ------------------------------------------------------------- constants
NoTexture == 0       \* the null texture pointer, m_texture(0)
InitialScale == 1    \* m_scale(1)
VisibleLevel == 1    \* usedLevel() > 1 abandons the paint

Tile == "tile"       \* this BaseTile
Other == "other"     \* any other BaseTile of the pool
Producer == "producer"
Consumer == "consumer"
Free == "free"

Textures == 1..NumTextures
Gens == 0..MaxGen
Scales == 1..MaxScale
UsedLevels == VisibleLevel..MaxUsedLevel

Max(a, b) == IF a >= b THEN a ELSE b

VARIABLES
    \* BaseTile fields
    m_texture, m_scale, m_dirty, m_lastDirtyPicture, m_lastPaintedPicture,
    m_atomicSync,
    \* BackedDoubleBufferedTexture state, per texture
    owner, usedLevel, prodHeld, consHeld,
    \* producer thread: position in paintBitmap() and its locals
    pPc, dirty, texture, scale, pictureCount,
    \* consumer thread: position in the current call, its argument and locals
    cPc, cArg, textureInfo, isTexturePainted,
    \* observations of the consumer's calls: the quad draw() submits, the
    \* m_lastPaintedPicture it read, what isTileReady() returned
    quadSubmitted, paintedRead, readyRet,
    \* history of the run:
    \*   lastMark           the g of the most recent markAsDirty(g), 0 before any
    \*   highestMark        the highest g passed to markAsDirty so far, 0 before any
    \*   markedDuringPaint  the highest g passed to markAsDirty since the snapshot
    \*                      of the paint in progress, 0 if none
    \*   paintStale         reserveTexture() has assigned a different texture since
    \*                      the snapshot of the paint in progress
    \*   freshPaint         a paint whose snapshot came after the latest assignment
    \*                      of a different texture has recorded its result
    lastMark, highestMark, markedDuringPaint, paintStale, freshPaint

tileVars == <<m_texture, m_scale, m_dirty, m_lastDirtyPicture, m_lastPaintedPicture>>
texVars == <<owner, usedLevel, prodHeld, consHeld>>
pLocals == <<dirty, texture, scale, pictureCount>>
pVars == <<pPc, dirty, texture, scale, pictureCount>>
cLocals == <<cArg, textureInfo, isTexturePainted, quadSubmitted, paintedRead>>
cVars == <<cPc, cArg, textureInfo, isTexturePainted, quadSubmitted, paintedRead, readyRet>>
histVars == <<lastMark, highestMark, markedDuringPaint, paintStale, freshPaint>>
vars == <<tileVars, m_atomicSync, texVars, pVars, cVars, histVars>>

\* BaseTile::BaseTile: no texture, scale 1, dirty, both picture counts 0.
Init ==
    /\ m_texture = NoTexture
    /\ m_scale = InitialScale
    /\ m_dirty = TRUE
    /\ m_lastDirtyPicture = 0
    /\ m_lastPaintedPicture = 0
    /\ m_atomicSync = Free
    /\ owner = [t \in Textures |-> Other]
    /\ usedLevel = [t \in Textures |-> VisibleLevel]
    /\ prodHeld = [t \in Textures |-> 0]
    /\ consHeld = [t \in Textures |-> 0]
    /\ pPc = "idle"
    /\ dirty = FALSE
    /\ texture = NoTexture
    /\ scale = InitialScale
    /\ pictureCount = 0
    /\ cPc = "idle"
    /\ cArg = 0
    /\ textureInfo = "none"
    /\ isTexturePainted = FALSE
    /\ quadSubmitted = FALSE
    /\ paintedRead = 0
    /\ readyRet = "none"
    /\ lastMark = 0
    /\ highestMark = 0
    /\ markedDuringPaint = 0
    /\ paintStale = FALSE
    /\ freshPaint = FALSE

\* ------------------------------------------------------- m_atomicSync
\* android::Mutex: lock() blocks while another holder has it.
Lock(who) ==
    /\ m_atomicSync = Free
    /\ m_atomicSync' = who

Unlock(who) ==
    /\ m_atomicSync = who
    /\ m_atomicSync' = Free

\* ------------------------------------------------ texture collaborators
\* producerLock(): blocking if the buffer is busy.
producerLock(t) ==
    /\ prodHeld[t] = 0
    /\ prodHeld' = [prodHeld EXCEPT ![t] = 1]

producerRelease(t) ==
    prodHeld' = [prodHeld EXCEPT ![t] = @ - 1]

\* producerUpdate(): commits the buffer and ends the producer's hold of it.
producerUpdate(t) ==
    prodHeld' = [prodHeld EXCEPT ![t] = @ - 1]

consumerLock(t) ==
    consHeld' = [consHeld EXCEPT ![t] = @ + 1]

consumerRelease(t) ==
    consHeld' = [consHeld EXCEPT ![t] = @ - 1]

\* the paint is in progress: after its snapshot, before its return
PaintInProgress == pPc \in {"producerLock", "check", "raster", "update", "lock2", "commit"}

\* the consumer returns to its caller; the locals of the call die
CReturn ==
    /\ cPc' = "idle"
    /\ cArg' = 0
    /\ textureInfo' = "none"
    /\ isTexturePainted' = FALSE
    /\ quadSubmitted' = FALSE
    /\ paintedRead' = 0

\* the consumer starts a call: the observations of the previous call are forgotten
CCall(pc, arg) ==
    /\ cPc = "idle"
    /\ cPc' = pc
    /\ cArg' = arg
    /\ readyRet' = "none"
    /\ UNCHANGED <<textureInfo, isTexturePainted, quadSubmitted, paintedRead>>
    /\ UNCHANGED <<tileVars, m_atomicSync, pVars, histVars>>

\* the consumer waits for and takes m_atomicSync
CLock(from, to) ==
    /\ cPc = from
    /\ Lock(Consumer)
    /\ cPc' = to
    /\ UNCHANGED <<tileVars, texVars, pVars, cLocals, readyRet, histVars>>

\* ------------------------------------------------------ reserveTexture
\* TilesManager::getAvailableTexture(this): the pool hands out any of its
\* textures and records this tile as its owner.
reserveTexture_call ==
    \E t \in Textures :
        /\ CCall("reserve_lock", t)
        /\ owner' = [owner EXCEPT ![t] = Tile]
        /\ UNCHANGED <<usedLevel, prodHeld, consHeld>>

reserveTexture_lock == CLock("reserve_lock", "reserve_body")

reserveTexture_body ==
    /\ cPc = "reserve_body"
    /\ Unlock(Consumer)
    /\ IF m_texture # cArg
       THEN /\ m_lastPaintedPicture' = 0
            /\ m_dirty' = TRUE
            /\ freshPaint' = FALSE
            /\ paintStale' = PaintInProgress
       ELSE UNCHANGED <<m_lastPaintedPicture, m_dirty, freshPaint, paintStale>>
    /\ m_texture' = cArg
    /\ CReturn
    /\ UNCHANGED <<m_scale, m_lastDirtyPicture, texVars, pVars, readyRet>>
    /\ UNCHANGED <<lastMark, highestMark, markedDuringPaint>>

reserveTexture == reserveTexture_call \/ reserveTexture_lock \/ reserveTexture_body

\* Another tile's reserveTexture() on the consumer thread: the pool reassigns
\* texture t to that tile.
poolReassign ==
    \E t \in Textures :
        /\ cPc = "idle"
        /\ owner[t] # Other
        /\ owner' = [owner EXCEPT ![t] = Other]
        /\ UNCHANGED <<tileVars, m_atomicSync, usedLevel, prodHeld, consHeld, pVars, cVars, histVars>>

\* ------------------------------------------------------- removeTexture
removeTexture_call ==
    /\ CCall("remove_lock", 0)
    /\ UNCHANGED texVars

removeTexture_lock_WaitsForPaint ==
    /\ IF m_texture = NoTexture THEN TRUE ELSE prodHeld[m_texture] = 0
    /\ CLock("remove_lock", "remove_body")

removeTexture_lock == CLock("remove_lock", "remove_body")

removeTexture_body ==
    /\ cPc = "remove_body"
    /\ Unlock(Consumer)
    /\ m_texture' = NoTexture
    /\ CReturn
    /\ UNCHANGED <<m_scale, m_dirty, m_lastDirtyPicture, m_lastPaintedPicture>>
    /\ UNCHANGED <<texVars, pVars, readyRet, histVars>>

removeTexture == removeTexture_call \/ removeTexture_lock \/ removeTexture_body

\* ------------------------------------------------------------ setScale
setScale_call ==
    \E s \in Scales :
        /\ CCall("setScale_lock", s)
        /\ UNCHANGED texVars

setScale_lock == CLock("setScale_lock", "setScale_body")

setScale_body_NoDirty ==
    /\ cPc = "setScale_body"
    /\ Unlock(Consumer)
    /\ m_scale' = cArg
    /\ CReturn
    /\ UNCHANGED <<m_texture, m_dirty, m_lastDirtyPicture, m_lastPaintedPicture>>
    /\ UNCHANGED <<texVars, pVars, readyRet, histVars>>

\* if (m_scale != scale) m_dirty = true; m_scale = scale;
setScale_body ==
    /\ cPc = "setScale_body"
    /\ Unlock(Consumer)
    /\ m_dirty' = IF m_scale # cArg THEN TRUE ELSE m_dirty
    /\ m_scale' = cArg
    /\ CReturn
    /\ UNCHANGED <<m_texture, m_lastDirtyPicture, m_lastPaintedPicture>>
    /\ UNCHANGED <<texVars, pVars, readyRet, histVars>>

setScale == setScale_call \/ setScale_lock \/ setScale_body

\* --------------------------------------------------------- markAsDirty
\* m_dirty after markAsDirty: set when the last paint is older, else kept
DirtyAfterMark_NeverSets(d, painted, dirtyPicture) == d

DirtyAfterMark_Recomputes(d, painted, dirtyPicture) == painted < dirtyPicture

DirtyAfterMark(d, painted, dirtyPicture) ==
    IF painted < dirtyPicture THEN TRUE ELSE d

markAsDirty_call ==
    \E g \in Gens :
        /\ CCall("markAsDirty_lock", g)
        /\ UNCHANGED texVars

markAsDirty_lock == CLock("markAsDirty_lock", "markAsDirty_body")

markAsDirty_body ==
    /\ cPc = "markAsDirty_body"
    /\ Unlock(Consumer)
    /\ m_lastDirtyPicture' = cArg
    /\ m_dirty' = DirtyAfterMark(m_dirty, m_lastPaintedPicture, cArg)
    /\ lastMark' = cArg
    /\ highestMark' = Max(highestMark, cArg)
    /\ markedDuringPaint' = IF PaintInProgress THEN Max(markedDuringPaint, cArg)
                                               ELSE markedDuringPaint
    /\ CReturn
    /\ UNCHANGED <<m_texture, m_scale, m_lastPaintedPicture>>
    /\ UNCHANGED <<texVars, pVars, readyRet, paintStale, freshPaint>>

markAsDirty == markAsDirty_call \/ markAsDirty_lock \/ markAsDirty_body

\* ------------------------------------------------------------- isDirty
isDirty_call ==
    /\ CCall("isDirty_lock", 0)
    /\ UNCHANGED texVars

isDirty_lock == CLock("isDirty_lock", "isDirty_body")

isDirty_body ==
    /\ cPc = "isDirty_body"
    /\ Unlock(Consumer)
    /\ CReturn
    /\ UNCHANGED <<tileVars, texVars, pVars, readyRet, histVars>>

isDirty == isDirty_call \/ isDirty_lock \/ isDirty_body

\* -------------------------------------------------------- setUsedLevel
setUsedLevel ==
    \E l \in UsedLevels :
        /\ cPc = "idle"
        /\ IF m_texture # NoTexture
           THEN usedLevel' = [usedLevel EXCEPT ![m_texture] = l]
           ELSE UNCHANGED usedLevel
        /\ UNCHANGED <<tileVars, m_atomicSync, owner, prodHeld, consHeld, pVars, cVars, histVars>>

\* ---------------------------------------------------------------- draw
\* bool isTexturePainted = m_lastPaintedPicture;
IsTexturePainted_Always(painted) == TRUE

IsTexturePainted(painted) == painted # 0

draw_call ==
    /\ CCall("draw_entry", 0)
    /\ UNCHANGED texVars

\* if (!m_texture) return;
draw_entry ==
    /\ cPc = "draw_entry"
    /\ IF m_texture = NoTexture
       THEN CReturn
       ELSE /\ cPc' = "draw_consumerLock"
            /\ UNCHANGED cLocals
    /\ UNCHANGED <<tileVars, m_atomicSync, texVars, pVars, readyRet, histVars>>

\* TextureInfo* textureInfo = m_texture->consumerLock(); the texture yields its
\* surface or reports it unavailable.
draw_consumerLock ==
    \E info \in {"ok", "unavailable"} :
        /\ cPc = "draw_consumerLock"
        /\ consumerLock(m_texture)
        /\ textureInfo' = info
        /\ cPc' = IF info = "unavailable" THEN "draw_noInfo" ELSE "draw_lock"
        /\ UNCHANGED <<tileVars, m_atomicSync, owner, usedLevel, prodHeld, pVars>>
        /\ UNCHANGED <<cArg, isTexturePainted, quadSubmitted, paintedRead, readyRet, histVars>>

draw_noInfo_NoRelease ==
    /\ cPc = "draw_noInfo"
    /\ CReturn
    /\ UNCHANGED <<tileVars, m_atomicSync, texVars, pVars, readyRet, histVars>>

\* if (!textureInfo) { m_texture->consumerRelease(); return; }
draw_noInfo ==
    /\ cPc = "draw_noInfo"
    /\ consumerRelease(m_texture)
    /\ CReturn
    /\ UNCHANGED <<tileVars, m_atomicSync, owner, usedLevel, prodHeld, pVars, readyRet, histVars>>

draw_lock == CLock("draw_lock", "draw_read")

draw_read ==
    /\ cPc = "draw_read"
    /\ Unlock(Consumer)
    /\ isTexturePainted' = IsTexturePainted(m_lastPaintedPicture)
    /\ paintedRead' = m_lastPaintedPicture
    /\ cPc' = "draw_quad"
    /\ UNCHANGED <<tileVars, texVars, pVars, cArg, textureInfo, histVars>>
    /\ UNCHANGED <<quadSubmitted, readyRet>>

\* if (isTexturePainted) shader()->drawQuad(...)
draw_quad ==
    /\ cPc = "draw_quad"
    /\ quadSubmitted' = isTexturePainted
    /\ cPc' = "draw_release"
    /\ UNCHANGED <<tileVars, m_atomicSync, texVars, pVars, histVars>>
    /\ UNCHANGED <<cArg, textureInfo, isTexturePainted, paintedRead, readyRet>>

draw_release ==
    /\ cPc = "draw_release"
    /\ consumerRelease(m_texture)
    /\ CReturn
    /\ UNCHANGED <<tileVars, m_atomicSync, owner, usedLevel, prodHeld, pVars, readyRet, histVars>>

draw ==
    \/ draw_call
    \/ draw_entry
    \/ draw_consumerLock
    \/ draw_noInfo
    \/ draw_lock
    \/ draw_read
    \/ draw_quad
    \/ draw_release

\* --------------------------------------------------------- isTileReady
\* if (!m_texture) return false; if (m_texture->owner() != this) return false;
NotPresentable_NoOwnerCheck(t) == t = NoTexture

NotPresentable(t) == t = NoTexture \/ owner[t] # Tile

isTileReady_call ==
    /\ CCall("ready_check", 0)
    /\ UNCHANGED texVars

isTileReady_check ==
    /\ cPc = "ready_check"
    /\ IF NotPresentable(m_texture)
       THEN /\ readyRet' = "false"
            /\ CReturn
       ELSE /\ cPc' = "ready_lock"
            /\ UNCHANGED <<readyRet, cLocals>>
    /\ UNCHANGED <<tileVars, m_atomicSync, texVars, pVars, histVars>>

isTileReady_lock == CLock("ready_lock", "ready_read")

isTileReady_read ==
    /\ cPc = "ready_read"
    /\ Unlock(Consumer)
    /\ readyRet' = IF ~m_dirty THEN "true" ELSE "false"
    /\ CReturn
    /\ UNCHANGED <<tileVars, texVars, pVars, histVars>>

isTileReady == isTileReady_call \/ isTileReady_check \/ isTileReady_lock \/ isTileReady_read

\* --------------------------------------------------------- paintBitmap
\* the producer returns; the locals of the call die
PReturn ==
    /\ pPc' = "idle"
    /\ dirty' = FALSE
    /\ texture' = NoTexture
    /\ scale' = InitialScale
    /\ pictureCount' = 0
    /\ markedDuringPaint' = 0
    /\ paintStale' = FALSE

PLock(from, to) ==
    /\ pPc = from
    /\ Lock(Producer)
    /\ pPc' = to
    /\ UNCHANGED <<tileVars, texVars, pLocals, cVars, histVars>>

paintBitmap_call ==
    /\ pPc = "idle"
    /\ pPc' = "lock1"
    /\ UNCHANGED <<tileVars, m_atomicSync, texVars, pLocals, cVars, histVars>>

paintBitmap_lock1 == PLock("lock1", "snapshot")

\* m_atomicSync.unlock() after the snapshot
SnapshotUnlock_Missing == UNCHANGED m_atomicSync

SnapshotUnlock == Unlock(Producer)

paintBitmap_snapshot_NoDirtyCheck ==
    /\ pPc = "snapshot"
    /\ SnapshotUnlock
    /\ IF m_texture = NoTexture
       THEN PReturn
       ELSE /\ dirty' = m_dirty
            /\ texture' = m_texture
            /\ scale' = m_scale
            /\ pPc' = "producerLock"
            /\ paintStale' = FALSE
            /\ markedDuringPaint' = 0
            /\ UNCHANGED pictureCount
    /\ UNCHANGED <<tileVars, texVars, cVars, lastMark, highestMark, freshPaint>>

\* dirty = m_dirty; texture = m_texture; scale = m_scale;
\* if (!dirty || !texture) return;
paintBitmap_snapshot ==
    /\ pPc = "snapshot"
    /\ SnapshotUnlock
    /\ IF ~m_dirty \/ m_texture = NoTexture
       THEN PReturn
       ELSE /\ dirty' = m_dirty
            /\ texture' = m_texture
            /\ scale' = m_scale
            /\ pPc' = "producerLock"
            /\ paintStale' = FALSE
            /\ markedDuringPaint' = 0
            /\ UNCHANGED pictureCount
    /\ UNCHANGED <<tileVars, texVars, cVars, lastMark, highestMark, freshPaint>>

\* TextureInfo* textureInfo = texture->producerLock();
paintBitmap_producerLock ==
    /\ pPc = "producerLock"
    /\ producerLock(texture)
    /\ pPc' = "check"
    /\ UNCHANGED <<tileVars, m_atomicSync, owner, usedLevel, consHeld>>
    /\ UNCHANGED <<pLocals, cVars, histVars>>

AbandonPaint_NoOwnerCheck(t) == usedLevel[t] > VisibleLevel

AbandonPaint_Inclusive(t) == owner[t] # Tile \/ usedLevel[t] >= VisibleLevel

\* texture->owner() != this || texture->usedLevel() > 1
AbandonPaint(t) == owner[t] # Tile \/ usedLevel[t] > VisibleLevel

paintBitmap_check ==
    /\ pPc = "check"
    /\ IF AbandonPaint(texture)
       THEN /\ producerRelease(texture)
            /\ PReturn
       ELSE /\ pPc' = "raster"
            /\ UNCHANGED <<prodHeld, pLocals, markedDuringPaint, paintStale>>
    /\ UNCHANGED <<tileVars, m_atomicSync, owner, usedLevel, consHeld, cVars>>
    /\ UNCHANGED <<lastMark, highestMark, freshPaint>>

\* int pictureCount = tiledPage->paintBaseLayerContent(canvas);
\* the rasterizer paints into the texture's canvas and reports a picture count
paintBitmap_raster ==
    \E g \in Gens :
        /\ pPc = "raster"
        /\ pictureCount' = g
        /\ pPc' = "update"
        /\ UNCHANGED <<tileVars, m_atomicSync, texVars, dirty, texture, scale>>
        /\ UNCHANGED <<cVars, histVars>>

\* texture->producerUpdate(textureInfo);
paintBitmap_update ==
    /\ pPc = "update"
    /\ producerUpdate(texture)
    /\ pPc' = "lock2"
    /\ UNCHANGED <<tileVars, m_atomicSync, owner, usedLevel, consHeld>>
    /\ UNCHANGED <<pLocals, cVars, histVars>>

paintBitmap_lock2 == PLock("lock2", "commit")

\* m_dirty after the paint is recorded
DirtyAfterPaint_Strict(d, painted, dirtyPicture) ==
    IF painted > dirtyPicture THEN FALSE ELSE d

DirtyAfterPaint_Always(d, painted, dirtyPicture) == FALSE

DirtyAfterPaint(d, painted, dirtyPicture) ==
    IF painted >= dirtyPicture THEN FALSE ELSE d

\* m_lastPaintedPicture = pictureCount;
\* if (m_lastPaintedPicture >= m_lastDirtyPicture) m_dirty = false;
paintBitmap_commit ==
    /\ pPc = "commit"
    /\ Unlock(Producer)
    /\ m_lastPaintedPicture' = pictureCount
    /\ m_dirty' = DirtyAfterPaint(m_dirty, pictureCount, m_lastDirtyPicture)
    /\ freshPaint' = IF paintStale THEN freshPaint ELSE TRUE
    /\ PReturn
    /\ UNCHANGED <<m_texture, m_scale, m_lastDirtyPicture, texVars, cVars>>
    /\ UNCHANGED <<lastMark, highestMark>>

paintBitmap ==
    \/ paintBitmap_call
    \/ paintBitmap_lock1
    \/ paintBitmap_snapshot
    \/ paintBitmap_producerLock
    \/ paintBitmap_check
    \/ paintBitmap_raster
    \/ paintBitmap_update
    \/ paintBitmap_lock2
    \/ paintBitmap_commit

\* ------------------------------------------------------- specification
Next ==
    \/ reserveTexture
    \/ poolReassign
    \/ removeTexture
    \/ setScale
    \/ markAsDirty
    \/ isDirty
    \/ setUsedLevel
    \/ draw
    \/ isTileReady
    \/ paintBitmap

Spec == Init /\ [][Next]_vars

TypeOK ==
    /\ m_texture \in Textures \cup {NoTexture}
    /\ m_scale \in Scales
    /\ m_dirty \in BOOLEAN
    /\ m_lastDirtyPicture \in Gens
    /\ m_lastPaintedPicture \in Gens
    /\ m_atomicSync \in {Free, Producer, Consumer}
    /\ owner \in [Textures -> {Tile, Other}]
    /\ usedLevel \in [Textures -> UsedLevels]

\* ------------------------------------------------------------ notions
\* isDirty() and isTileReady() as functions of the state
IsDirtyValue == m_dirty

IsTileReadyValue ==
    /\ m_texture # NoTexture
    /\ owner[m_texture] = Tile
    /\ ~m_dirty

\* a thread is blocked: it waits for a lock that is not available
ProducerBlocked ==
    \/ pPc \in {"lock1", "lock2"} /\ m_atomicSync # Free
    \/ pPc = "producerLock" /\ prodHeld[texture] # 0

ConsumerBlocked ==
    /\ cPc \in {"reserve_lock", "remove_lock", "setScale_lock", "markAsDirty_lock",
                "isDirty_lock", "draw_lock", "ready_lock"}
    /\ m_atomicSync # Free

\* the step in which paintBitmap() records its paint and returns
PaintCommits == pPc = "commit" /\ pPc' = "idle"

\* the consumer is inside draw() between consumerLock() and consumerRelease()
InDrawLocked == cPc \in {"draw_noInfo", "draw_lock", "draw_read", "draw_quad", "draw_release"}

\* ---------------------------------------------------------------- C1
\* C1: in every reachable state, under any interleaving of the consumer's
\* reserveTexture, removeTexture, setScale and markAsDirty with the steps of
\* the single producer's paintBitmap, m_lastPaintedPicture < m_lastDirtyPicture
\* implies m_dirty.
C1_DirtyInvariant == m_lastPaintedPicture < m_lastDirtyPicture => m_dirty

\* a paint has recorded its result, an invalidation of a later picture has
\* followed, and the tile is dirty
C1_Witness ==
    /\ freshPaint
    /\ pPc = "idle"
    /\ m_lastPaintedPicture < m_lastDirtyPicture
    /\ m_dirty

\* ---------------------------------------------------------------- C2
\* C2: there is no reachable state in which the producer (in paintBitmap) and
\* the consumer (in draw, reserveTexture, removeTexture, setScale, markAsDirty,
\* isDirty, isTileReady) are both blocked on m_atomicSync or a texture lock.
C2_NoDeadlock == ~(ProducerBlocked /\ ConsumerBlocked)

\* draw() holds the consumer lock of the texture and waits for m_atomicSync
\* while paintBitmap() holds it to record its paint
C2_Witness ==
    /\ cPc = "draw_lock"
    /\ consHeld[m_texture] = 1
    /\ pPc = "commit"
    /\ m_atomicSync = Producer
    /\ ConsumerBlocked

\* ---------------------------------------------------------------- C3
\* C3 as claimed: when paintBitmap() records a paint that reported picture
\* count g, and no markAsDirty(g') with g' > g ran between the snapshot and
\* this step, the tile is not dirty afterwards.
C3_Claim ==
    [][(PaintCommits /\ markedDuringPaint <= pictureCount) => ~m_dirty']_vars

\* C3 as amended: when paintBitmap() records a paint that reported picture
\* count g, and the most recent markAsDirty(g') before this step, whether
\* before or during the paint, had g' <= g (or there was none), the tile is
\* not dirty afterwards.
C3_Amended ==
    [][(PaintCommits /\ lastMark <= pictureCount) => ~m_dirty']_vars

\* a paint of a picture at least as new as the latest invalidation has been
\* recorded and the tile is clean
C3_Witness ==
    /\ freshPaint
    /\ pPc = "idle"
    /\ lastMark >= 1
    /\ m_lastPaintedPicture >= lastMark
    /\ ~m_dirty

\* ---------------------------------------------------------------- C4
\* C4: when markAsDirty(g') with g' > g ran between the snapshot and the
\* final step of a paintBitmap() that reported g, the tile is dirty after that
\* step, whatever other markAsDirty calls ran during the paint.
C4_Claim ==
    [][(PaintCommits /\ markedDuringPaint > pictureCount) => m_dirty']_vars

\* ---------------------------------------------------------------- C5
\* C5: after reserveTexture() assigned a different texture, isTileReady() stays
\* false until a paintBitmap() that started after the assignment has recorded
\* its paint, also when the assignment happens during a paint of the old
\* texture.
C5_Claim == IsTileReadyValue => freshPaint

\* the first half of C5: the step of reserveTexture() that assigns a different
\* texture leaves the tile dirty with m_lastPaintedPicture = 0
C5_ResetOnReassign ==
    [][(cPc = "reserve_body" /\ m_texture' # m_texture)
          => (m_dirty' /\ m_lastPaintedPicture' = 0)]_vars

C7_NoQuadUnpainted ==
    quadSubmitted => (paintedRead # 0 /\ m_texture # NoTexture /\ textureInfo = "ok")

\* draw() read m_lastPaintedPicture = 0 on a tile with a texture and an
\* available surface, and has passed the quad without submitting one
C7_Witness ==
    /\ cPc = "draw_release"
    /\ m_texture # NoTexture
    /\ textureInfo = "ok"
    /\ paintedRead = 0
    /\ ~quadSubmitted

\* ---------------------------------------------------------------- C8
\* C8: isTileReady() returns false when the tile has no texture or the
\* texture's owner is not this tile, whatever m_dirty is, and otherwise the
\* negation of m_dirty.
C8_TileReadyResult ==
    [][(cPc \in {"ready_check", "ready_read"} /\ cPc' = "idle")
          => readyRet' = (IF IsTileReadyValue THEN "true" ELSE "false")]_vars

\* isTileReady() returned false for a clean tile whose texture is owned by
\* another tile
C8_Witness ==
    /\ cPc = "idle"
    /\ readyRet = "false"
    /\ m_texture # NoTexture
    /\ owner[m_texture] # Tile
    /\ ~m_dirty

\* ---------------------------------------------------------------- C9
\* C9: whenever paintBitmap() is rasterizing into texture X or committing it
\* with producerUpdate, the owner of X is this tile.
C9_Claim == pPc \in {"raster", "update"} => owner[texture] = Tile

\* ---------------------------------------------------------------- C10
\* C10: every consumerLock() of a draw() is matched by one consumerRelease()
\* of the same texture before the draw returns, also when the surface is
\* unavailable, and a draw() of a tile without texture takes no consumer lock:
\* a texture's consumer lock is held once inside the locked part of draw() on
\* the tile's texture and not at all anywhere else.
C10_ConsumerLockBalanced ==
    \A t \in Textures :
        consHeld[t] = IF InDrawLocked /\ t = m_texture THEN 1 ELSE 0

\* consumerLock() reported the surface unavailable and draw() is about to
\* release the lock and return
C10_Witness ==
    /\ cPc = "draw_noInfo"
    /\ textureInfo = "unavailable"
    /\ consHeld[m_texture] = 1

\* ---------------------------------------------------------------- C11
\* C11: m_lastDirtyPicture never decreases: no step of markAsDirty(g), with
\* an arbitrary g, or of any other operation lowers the stored value.
C11_Claim == [][m_lastDirtyPicture' >= m_lastDirtyPicture]_vars

\* ---------------------------------------------------------------- C12
\* C12: the locked step of setScale(s) with s different from m_scale sets
\* m_dirty and stores s in the same step; with s equal to m_scale it leaves
\* m_dirty, m_texture, the scale and both picture counts unchanged.
C12_SetScale ==
    [][(cPc = "setScale_body" /\ cPc' = "idle")
          => IF cArg # m_scale
             THEN /\ m_dirty'
                  /\ m_scale' = cArg
                  /\ UNCHANGED <<m_texture, m_lastDirtyPicture, m_lastPaintedPicture>>
             ELSE UNCHANGED tileVars]_vars

\* a tile whose last paint was up to date is dirty again at a scale other
\* than the one it was created with
C12_Witness ==
    /\ cPc = "idle"
    /\ pPc = "idle"
    /\ m_scale # InitialScale
    /\ freshPaint
    /\ m_lastPaintedPicture >= m_lastDirtyPicture
    /\ m_lastPaintedPicture >= highestMark
    /\ m_dirty

\* ---------------------------------------------------------------- C13
\* C13: a thread holds m_atomicSync only in the locked sections that read or
\* update the tile's fields: never while it takes or waits for a texture lock
\* (producerLock, consumerLock), while it releases or commits the texture,
\* while the pool's acquire or the rasterizer runs, or between calls.
C13_LockOrder ==
    /\ m_atomicSync = Producer => pPc \in {"snapshot", "commit"}
    /\ m_atomicSync = Consumer =>
           cPc \in {"reserve_body", "remove_body", "setScale_body", "markAsDirty_body",
                    "isDirty_body", "draw_read", "ready_read"}

\* the rasterizer runs while the consumer holds m_atomicSync to update the tile
C13_Witness ==
    /\ pPc = "raster"
    /\ prodHeld[texture] = 1
    /\ m_atomicSync = Consumer

\* ---------------------------------------------------------------- C14
\* C14: when, after producerLock(), the texture's owner is not this tile or
\* its used level is above 1, the next step of paintBitmap() releases the
\* producer lock and returns, without rasterizing or committing, and leaves
\* m_dirty, both picture counts, m_texture and m_scale as they were.
C14_AbandonedPaint ==
    [][(/\ pPc = "check"
        /\ pPc' # "check"
        /\ (owner[texture] # Tile \/ usedLevel[texture] > VisibleLevel))
          => (/\ pPc' = "idle"
              /\ prodHeld'[texture] = 0
              /\ UNCHANGED tileVars)]_vars

\* paintBitmap() holds the producer lock of a texture that was taken from a
\* dirty tile after its snapshot
C14_Witness ==
    /\ pPc = "check"
    /\ prodHeld[texture] = 1
    /\ owner[texture] # Tile
    /\ usedLevel[texture] <= VisibleLevel
    /\ m_dirty

\* ---------------------------------------------------------------- C15
\* C15: when the snapshot at the start of paintBitmap() shows m_dirty false
\* or m_texture null, paintBitmap() returns at once: the producer lock of no
\* texture is taken, the rasterizer does not run, and no field of the tile or
\* of a texture changes.
C15_FastPath ==
    [][(/\ pPc = "snapshot"
        /\ pPc' # "snapshot"
        /\ (~m_dirty \/ m_texture = NoTexture))
          => (/\ pPc' = "idle"
              /\ UNCHANGED <<tileVars, texVars>>)]_vars

\* paintBitmap() is about to snapshot a clean tile that holds a texture
C15_Witness ==
    /\ pPc = "snapshot"
    /\ m_atomicSync = Producer
    /\ ~m_dirty
    /\ m_texture # NoTexture

\* ---------------------------------------------------------------- C16
\* the producer is between producerLock() and the final locked section of a
\* paintBitmap() on the tile's current texture
PaintHoldsTexture ==
    /\ pPc \in {"check", "raster", "update", "lock2"}
    /\ texture = m_texture

\* C16: removeTexture() never waits on a paint in progress: while the
\* producer is between producerLock() and the final commit of a paint of the
\* tile's texture, removeTexture() can take m_atomicSync, and its locked
\* section only sets m_texture to null, leaving m_dirty, m_scale, both picture
\* counts and the textures' locks as they were.
C16_RemoveNeverWaits ==
    /\ []((PaintHoldsTexture /\ cPc = "remove_lock") => ENABLED removeTexture_lock)
    /\ [][(cPc = "remove_body" /\ cPc' = "idle")
             => (/\ m_texture' = NoTexture
                 /\ UNCHANGED <<m_scale, m_dirty, m_lastDirtyPicture, m_lastPaintedPicture>>
                 /\ UNCHANGED <<texVars, pVars>>)]_vars

\* removeTexture() is inside its locked section while the rasterizer paints
\* the tile's texture under the producer lock
C16_Witness ==
    /\ PaintHoldsTexture
    /\ pPc = "raster"
    /\ prodHeld[texture] = 1
    /\ cPc = "remove_body"

\* ---------------------------------------------------------------- C17
\* the locked sections of the consumer's calls: a thread that holds
\* m_atomicSync finishes its section
ConsumerSection ==
    \/ reserveTexture_body
    \/ removeTexture_body
    \/ setScale_body
    \/ markAsDirty_body
    \/ isDirty_body
    \/ draw_read
    \/ isTileReady_read

\* The producer thread keeps calling paintBitmap() and is scheduled fairly:
\* it gets m_atomicSync when the lock is free again and again.
LiveSpec == Spec /\ SF_vars(paintBitmap) /\ WF_vars(ConsumerSection)

\* the tile keeps a texture it owns at a used level of at most 1, no
\* reserveTexture, removeTexture, setScale or markAsDirty call is running, and
\* a picture count reported by the rasterizer is at least m_lastDirtyPicture
Quiet ==
    /\ m_texture # NoTexture
    /\ owner[m_texture] = Tile
    /\ usedLevel[m_texture] <= VisibleLevel
    /\ cPc \notin {"reserve_lock", "reserve_body", "remove_lock", "remove_body",
                   "setScale_lock", "setScale_body", "markAsDirty_lock", "markAsDirty_body"}
    /\ pPc \in {"update", "lock2", "commit"} => pictureCount >= m_lastDirtyPicture

\* C17: under fair scheduling of the producer, if from some point on the
\* tile stays quiet (it keeps a texture it owns at used level <= 1, no
\* markAsDirty, setScale, reserveTexture or removeTexture call occurs, the
\* rasterizer reports at least m_lastDirtyPicture), then repeated
\* paintBitmap() passes make isDirty() false and isTileReady() true, and they
\* stay so.
C17_EventualRepaint == <>[]Quiet => <>[](~IsDirtyValue /\ IsTileReadyValue)

\* a quiet tile that a paint has cleaned after the last markAsDirty, with the
\* producer back between two passes
C17_Witness ==
    /\ Quiet
    /\ pPc = "idle"
    /\ cPc = "idle"
    /\ prodHeld[m_texture] = 0
    /\ freshPaint
    /\ m_lastPaintedPicture >= m_lastDirtyPicture
    /\ ~IsDirtyValue
    /\ IsTileReadyValue

\* ---------------------------------------------------------------- C18
\* C18: a paintBitmap() whose snapshot of the scale differs from m_scale at
\* its final step (a setScale to a new scale ran during the paint) leaves the
\* tile dirty, so that the tile is never clean with content rasterized at
\* another scale than m_scale.
C18_Claim == [][(PaintCommits /\ scale # m_scale) => m_dirty']_vars

\* ---------------------------------------------------------------- C19
\* C19: whenever the tile holds a texture and m_lastPaintedPicture is not
\* zero, a paintBitmap() of the tile has committed content into that texture
\* since reserveTexture() assigned it.  The producer is one thread, so a paint
\* that ends while the tile holds another texture than the one it painted
\* began before that texture was assigned, and no paint has committed into
\* it since: the claim requires m_lastPaintedPicture to be zero after it.
C19_Claim ==
    [][(PaintCommits /\ m_texture # NoTexture /\ texture # m_texture)
          => m_lastPaintedPicture' = 0]_vars

\* ---------------------------------------------------------------- C20
\* C20: m_dirty goes from true to false only in the final locked step of a
\* paintBitmap() that passed the owner/used-level check and committed the
\* buffer, and only when the picture count it reports is at least
\* m_lastDirtyPicture at that moment; no call of the consumer clears it, and
\* no step of paintBitmap() writes m_texture, m_scale or m_lastDirtyPicture.
C20_OnlyPaintClears ==
    [][/\ (m_dirty /\ ~m_dirty')
             => (/\ pPc = "commit"
                 /\ pPc' = "idle"
                 /\ cPc' = cPc
                 /\ pictureCount >= m_lastDirtyPicture)
       /\ (pPc' # pPc) => UNCHANGED <<m_texture, m_scale, m_lastDirtyPicture>>]_vars

\* a tile that was marked dirty and rescaled is clean after a paint
C20_Witness ==
    /\ ~m_dirty
    /\ pPc = "idle"
    /\ cPc = "idle"
    /\ m_scale # InitialScale
    /\ lastMark >= 1
    /\ m_lastPaintedPicture >= m_lastDirtyPicture

====
